---- MODULE Spec2Model ----
(***************************************************************************)
(* Model of wayback-discover-diff-go: the request handler that starts      *)
(* SimHash jobs (internal/handlers), the job orchestrator with its worker  *)
(* pool and process-wide digest cache (internal/job), and the result store *)
(* the job commits to (a Redis hash per normalized URL).                   *)
(***************************************************************************)
EXTENDS Integers, Sequences, FiniteSets, TLC

(* ------------------------------ bounds -------------------------------- *)
(* a run is one of two workloads, fixed when it starts: one job whose      *)
(* capture list has up to MaxCaptures lines, or up to MaxJobs jobs whose   *)
(* capture lists have up to MaxCaptures - 1 lines between them             *)
MaxJobs == 2
MaxCaptures == 3

(* capacity of workerCh. The source has CONCURRENCY_LIMIT = 20; the model  *)
(* keeps the channel and scales its capacity down, so that a capture list  *)
(* of MaxCaptures lines is longer than the pool.                           *)
CONCURRENCY_LIMIT == 2

JobIds == 1..MaxJobs
Workloads == {[jobs |-> 1, lines |-> MaxCaptures],
              [jobs |-> MaxJobs, lines |-> MaxCaptures - 1]}
Nil == 0

URLs == {<<"b", ".", "a">>, <<"c">>}
Years == {"2023"}
Digests == {"D1", "D2"}

(* ----------------------------- variables ------------------------------ *)
VARIABLES
    load,         \* the workload of this run: jobs and lines still allowed
    nextJob,      \* number of Job objects allocated so far
    jobsMap,      \* Handler.jobsMap: the ids registered
    resp,         \* last response written by CalculateSimhash
    url, year,    \* Job.URL, Job.Year
    state,        \* Job.State
    info,         \* Job.Info (the kind of message)
    durationSet,  \* Job.Duration has been assigned
    pc,           \* position of the job's goroutine
    cdxErr,       \* FetchCDX returned an error for this job
    captures,     \* the lines FetchCDX returned
    launched,     \* number of captures the dispatch loop has started
    workerCh,     \* len(workerCh): slots taken and not yet given back
    wpc,          \* position of each capture goroutine
    wres,         \* (timestamp, simhash) a capture goroutine got back
    finalResult,  \* job-local result map
    icount,       \* the progress counter i
    hsetIssued,   \* the job issued HSET to the store
    simhashMap,   \* process-wide digest cache
    muLocked,     \* the package-level mutex mu is held
    computed,     \* per digest, how many times a fingerprint was computed
    store,        \* Redis: key -> (timestamp -> simhash)
    crashed,      \* the runtime aborted the process
    call          \* a call into the download, query or simhash code that
                  \* is checked on its own: function, arguments, locals

jobVars == <<load, nextJob, jobsMap, resp, url, year, state, info,
             durationSet, pc, cdxErr, captures, launched, workerCh, wpc,
             wres, finalResult, icount, hsetIssued, simhashMap, muLocked,
             computed, store, crashed>>

vars == <<jobVars, call>>

handlerVars == <<load, nextJob, jobsMap, resp, url, year>>
cacheVars == <<simhashMap, muLocked, computed>>

(* ------------------------------ helpers ------------------------------- *)
EmptyMap == [x \in {} |-> Nil]

MapPut(m, k, v) == [x \in (DOMAIN m) \cup {k} |-> IF x = k THEN v ELSE m[x]]

MapMerge(m, n) == [x \in (DOMAIN m) \cup (DOMAIN n) |->
                      IF x \in DOMAIN n THEN n[x] ELSE m[x]]

(* The fingerprint of the content a digest identifies (GetSimhash of the   *)
(* features extracted from the body the digest names).                     *)
Fp(d) == IF d = "D1" THEN "F1" ELSE "F2"

(* A capture timestamp of year y; FetchCDX asks for from=y, to=y.          *)
TS(y, n) == <<y, n>>

(* the return value "", "" of GetCalculation: no timestamp, no simhash *)
NoResult == <<TS("", 0), "">>

(* the byte of a character of a URL or of a key *)
Byte(c) ==
    CASE c = "," -> 44
      [] c = "." -> 46
      [] c = "a" -> 97
      [] c = "b" -> 98
      [] OTHER -> 99

(* the order of Go strings, on sequences of characters *)
StrLess(a, b) ==
    \E k \in 0..Len(a) :
       /\ k <= Len(b)
       /\ \A i \in 1..k : a[i] = b[i]
       /\ IF k = Len(a) THEN k < Len(b)
          ELSE k < Len(b) /\ Byte(a[k + 1]) < Byte(b[k + 1])

(* strings.Split(str, sep): the empty string gives one empty part *)
RECURSIVE Split(_, _)
Split(str, sep) ==
    IF \A i \in 1..Len(str) : str[i] # sep THEN <<str>>
    ELSE LET i == CHOOSE n \in 1..Len(str) :
                     str[n] = sep /\ \A m \in 1..(n - 1) : str[m] # sep
         IN <<SubSeq(str, 1, i - 1)>> \o Split(SubSeq(str, i + 1, Len(str)), sep)

SortPartsNone(parts) == parts

(* sort.Strings on the dot-separated parts *)
RECURSIVE SortParts(_)
SortParts(parts) ==
    IF Len(parts) <= 1 THEN parts
    ELSE LET sorted == SortParts(Tail(parts))
             x == Head(parts)
             small == SelectSeq(sorted, LAMBDA p : StrLess(p, x))
             rest == SelectSeq(sorted, LAMBDA p : ~StrLess(p, x))
         IN small \o <<x>> \o rest

(* strings.Join(parts, sep) *)
RECURSIVE Join(_, _)
Join(parts, sep) ==
    IF Len(parts) = 0 THEN << >>
    ELSE IF Len(parts) = 1 THEN parts[1]
    ELSE parts[1] \o <<sep>> \o Join(Tail(parts), sep)

(* utils.Surt: split on ".", sort, join with "," *)
Surt(u) == Join(SortParts(Split(u, ".")), ",")

(* the lines a CDX response can hold: "timestamp digest" or a malformed    *)
(* line with a single field                                                *)
CaptureLine(y, k) == {<<TS(y, k), d>> : d \in Digests} \cup {<<"garbage">>}

CaptureLists(y, max) ==
    UNION {{s \in [1..n -> UNION {CaptureLine(y, k) : k \in 1..n}] :
               \A k \in 1..n : s[k] \in CaptureLine(y, k)} : n \in 1..max}

RECURSIVE Listed(_)
Listed(js) ==
    IF js = {} THEN 0
    ELSE LET j == CHOOSE x \in js : TRUE
         IN Len(captures[j]) + Listed(js \ {j})

Workers(j) == 1..Len(captures[j])

(* the capture goroutines of job j that were started and have not finished *)
InFlight(j) == Cardinality({k \in Workers(j) : wpc[j][k] \notin {"idle", "done"}})

(* ------------------------------- Init --------------------------------- *)
NoCall == [fn |-> "none"]

JobInit ==
    /\ load \in Workloads
    /\ nextJob = 0
    /\ jobsMap = {}
    /\ resp = <<"NONE", Nil>>
    /\ url = [j \in JobIds |-> <<>>]
    /\ year = [j \in JobIds |-> ""]
    /\ state = [j \in JobIds |-> ""]
    /\ info = [j \in JobIds |-> ""]
    /\ durationSet = [j \in JobIds |-> FALSE]
    /\ pc = [j \in JobIds |-> "none"]
    /\ cdxErr = [j \in JobIds |-> FALSE]
    /\ captures = [j \in JobIds |-> <<>>]
    /\ launched = [j \in JobIds |-> 0]
    /\ workerCh = [j \in JobIds |-> 0]
    /\ wpc = [j \in JobIds |-> <<>>]
    /\ wres = [j \in JobIds |-> <<>>]
    /\ finalResult = [j \in JobIds |-> EmptyMap]
    /\ icount = [j \in JobIds |-> 0]
    /\ hsetIssued = [j \in JobIds |-> FALSE]
    /\ simhashMap = EmptyMap
    /\ muLocked = FALSE
    /\ computed = [d \in Digests |-> 0]
    /\ store = EmptyMap
    /\ crashed = FALSE

Init == JobInit /\ call = NoCall


(* ----------------------- handlers.CalculateSimhash -------------------- *)
(* Handler.getActiveTask: the range over jobsMap visits the entries in an  *)
(* unspecified order and returns the first job whose URL and Year match,   *)
(* whatever its State; every matching job is a possible result.            *)
getActiveTask(u, y) ==
    LET matches == {j \in jobsMap : url[j] = u /\ year[j] = y}
    IN IF matches = {} THEN {Nil} ELSE matches

(* Job.RunJob up to the go statement: the fields a new job starts with *)
RunJob(j, u, y) ==
    /\ url' = [url EXCEPT ![j] = u]
    /\ year' = [year EXCEPT ![j] = y]
    /\ state' = [state EXCEPT ![j] = "PENDING"]
    /\ info' = [info EXCEPT ![j] = "fetching"]
    /\ pc' = [pc EXCEPT ![j] = "fetch"]

(* CalculateSimhash, a PENDING task was found: answer with its id *)
CalculatePending(u, y) ==
    /\ ~crashed
    /\ \E task \in getActiveTask(u, y) :
          /\ task # Nil
          /\ state[task] = "PENDING"
          /\ resp' = <<"PENDING", task>>
    /\ UNCHANGED <<call, load, nextJob, jobsMap, url, year, state, info,
                   durationSet, pc, cdxErr, captures, launched, workerCh,
                   wpc, wres, finalResult, icount, hsetIssued, simhashMap,
                   muLocked, computed, store, crashed>>

(* CalculateSimhash, no PENDING task was found: NewJobQueue and RunJob *)
CalculateStart(u, y) ==
    /\ ~crashed
    /\ nextJob < load.jobs
    /\ \E task \in getActiveTask(u, y) :
          IF task = Nil THEN TRUE ELSE state[task] # "PENDING"
    /\ nextJob' = nextJob + 1
    /\ RunJob(nextJob + 1, u, y)
    /\ UNCHANGED <<call, load, jobsMap, resp, durationSet, cdxErr, captures,
                   launched, workerCh, wpc, wres, finalResult, icount,
                   hsetIssued, simhashMap, muLocked, computed, store,
                   crashed>>

(* CalculateSimhash after RunJob returned: h.jobsMap[jobID] = job, STARTED *)
Register(j) ==
    /\ ~crashed
    /\ j <= nextJob
    /\ j \notin jobsMap
    /\ jobsMap' = jobsMap \cup {j}
    /\ resp' = <<"STARTED", j>>
    /\ UNCHANGED <<call, load, nextJob, url, year, state, info, durationSet,
                   pc, cdxErr, captures, launched, workerCh, wpc, wres,
                   finalResult, icount, hsetIssued, simhashMap, muLocked,
                   computed, store, crashed>>

(* --------------------------- Job.RunJob goroutine --------------------- *)
(* FetchCDX returned an error: State = ERROR and return *)
FetchCDXErr(j) ==
    /\ ~crashed
    /\ pc[j] = "fetch"
    /\ cdxErr' = [cdxErr EXCEPT ![j] = TRUE]
    /\ state' = [state EXCEPT ![j] = "ERROR"]
    /\ info' = [info EXCEPT ![j] = "cdxerror"]
    /\ pc' = [pc EXCEPT ![j] = "done"]
    /\ UNCHANGED <<call, handlerVars, durationSet, captures, launched,
                   workerCh, wpc, wres, finalResult, icount, hsetIssued,
                   cacheVars, store, crashed>>

(* FetchCDX returned a non-empty list of lines *)
FetchCDXOk(j) ==
    /\ ~crashed
    /\ pc[j] = "fetch"
    /\ \E list \in CaptureLists(year[j], load.lines - Listed(JobIds)) :
          /\ captures' = [captures EXCEPT ![j] = list]
          /\ wpc' = [wpc EXCEPT ![j] = [k \in 1..Len(list) |-> "idle"]]
          /\ wres' = [wres EXCEPT ![j] = [k \in 1..Len(list) |-> NoResult]]
    /\ pc' = [pc EXCEPT ![j] = "run"]
    /\ UNCHANGED <<call, handlerVars, state, info, durationSet, cdxErr,
                   launched, workerCh, finalResult, icount, hsetIssued,
                   cacheVars, store, crashed>>

(* workerCh <- struct{}{} does not block: the channel has a free slot *)
SlotFreeUnbounded(j) == TRUE

SlotFree(j) == workerCh[j] < CONCURRENCY_LIMIT

(* one iteration of the dispatch loop: take a slot, wg.Add(1), go func *)
Dispatch(j) ==
    /\ ~crashed
    /\ pc[j] = "run"
    /\ launched[j] < Len(captures[j])
    /\ SlotFree(j)
    /\ workerCh' = [workerCh EXCEPT ![j] = @ + 1]
    /\ launched' = [launched EXCEPT ![j] = @ + 1]
    /\ wpc' = [wpc EXCEPT ![j][launched[j] + 1] = "calc"]
    /\ UNCHANGED <<call, handlerVars, state, info, durationSet, pc, cdxErr,
                   captures, wres, finalResult, icount, hsetIssued,
                   cacheVars, store, crashed>>


(* --------------------------- Job.GetCalculation ----------------------- *)
Parts(j, k) == captures[j][k]
Timestamp(j, k) == Parts(j, k)[1]
Digest(j, k) == Parts(j, k)[2]

WorkerFrame(j) ==
    UNCHANGED <<call, handlerVars, durationSet, pc, cdxErr, captures,
                launched, workerCh, hsetIssued, store>>

(* len(parts) < 2: return "", "" *)
Malformed(j, k) ==
    /\ ~crashed
    /\ wpc[j][k] = "calc"
    /\ Len(Parts(j, k)) < 2
    /\ wres' = [wres EXCEPT ![j][k] = NoResult]
    /\ wpc' = [wpc EXCEPT ![j][k] = "defer"]
    /\ WorkerFrame(j)
    /\ UNCHANGED <<state, info, finalResult, icount, cacheVars, crashed>>

(* simhash, exists := simhashMap[digest] *)
ExistsNever(d) == FALSE

Exists(d) == d \in DOMAIN simhashMap

(* mu.Lock(); the digest is in simhashMap: return timestamp, simhash.      *)
(* This return has no mu.Unlock() before it: mu stays locked.              *)
LookupHit(j, k) ==
    /\ ~crashed
    /\ wpc[j][k] = "calc"
    /\ Len(Parts(j, k)) >= 2
    /\ ~muLocked
    /\ Exists(Digest(j, k))
    /\ muLocked' = TRUE
    /\ wres' = [wres EXCEPT ![j][k] = <<Timestamp(j, k), simhashMap[Digest(j, k)]>>]
    /\ wpc' = [wpc EXCEPT ![j][k] = "writing"]
    /\ WorkerFrame(j)
    /\ UNCHANGED <<state, info, finalResult, icount, simhashMap, computed,
                   crashed>>

(* mu.Lock(); the digest is not in simhashMap; mu.Unlock() *)
LookupMiss(j, k) ==
    /\ ~crashed
    /\ wpc[j][k] = "calc"
    /\ Len(Parts(j, k)) >= 2
    /\ ~muLocked
    /\ ~Exists(Digest(j, k))
    /\ wpc' = [wpc EXCEPT ![j][k] = "download"]
    /\ WorkerFrame(j)
    /\ UNCHANGED <<state, info, wres, finalResult, icount, cacheVars,
                   crashed>>

(* as DownloadFail, but the failed capture fails the job *)
DownloadFailFailsJob(j, k) ==
    /\ ~crashed
    /\ wpc[j][k] = "download"
    /\ wres' = [wres EXCEPT ![j][k] = NoResult]
    /\ wpc' = [wpc EXCEPT ![j][k] = "defer"]
    /\ state' = [state EXCEPT ![j] = "ERROR"]
    /\ WorkerFrame(j)
    /\ UNCHANGED <<info, finalResult, icount, cacheVars, crashed>>

(* DownloadCapture returned "" (transport failure, undecodable or non-text *)
(* body) or extractHTMLFeatures returned no features: return "", ""        *)
DownloadFail(j, k) ==
    /\ ~crashed
    /\ wpc[j][k] = "download"
    /\ wres' = [wres EXCEPT ![j][k] = NoResult]
    /\ wpc' = [wpc EXCEPT ![j][k] = "defer"]
    /\ WorkerFrame(j)
    /\ UNCHANGED <<state, info, finalResult, icount, cacheVars, crashed>>

(* download, extractHTMLFeatures and simhash.GetSimhash succeeded *)
DownloadOk(j, k) ==
    /\ ~crashed
    /\ wpc[j][k] = "download"
    /\ computed' = [computed EXCEPT ![Digest(j, k)] = @ + 1]
    /\ wres' = [wres EXCEPT ![j][k] = <<Timestamp(j, k), Fp(Digest(j, k))>>]
    /\ wpc' = [wpc EXCEPT ![j][k] = "store"]
    /\ WorkerFrame(j)
    /\ UNCHANGED <<state, info, finalResult, icount, simhashMap, muLocked,
                   crashed>>

(* mu.Lock(); simhashMap[digest] = encodedSimhash; mu.Unlock() *)
StoreSimhash(j, k) ==
    /\ ~crashed
    /\ wpc[j][k] = "store"
    /\ ~muLocked
    /\ simhashMap' = MapPut(simhashMap, Digest(j, k), wres[j][k][2])
    /\ wpc' = [wpc EXCEPT ![j][k] = "writing"]
    /\ WorkerFrame(j)
    /\ UNCHANGED <<state, info, wres, finalResult, icount, muLocked,
                   computed, crashed>>

(* ------------------- the capture goroutine of RunJob ------------------ *)
(* GetCalculation returned a pair and the goroutine is at                  *)
(* finalResult[timestamp] = simhash, a map write under no lock: the        *)
(* goroutines of job j, other than k, that are at that write too           *)
Racing(j, k) == {o \in Workers(j) \ {k} : wpc[j][o] = "writing"}

(* if i%10 == 0 { j.State = "PENDING"; j.Info = ... }; atomic.AddInt64 *)
Progress(j) ==
    /\ state' = [state EXCEPT ![j] = IF icount[j] % 10 = 0 THEN "PENDING" ELSE @]
    /\ info' = [info EXCEPT ![j] = IF icount[j] % 10 = 0 THEN "progress" ELSE @]
    /\ icount' = [icount EXCEPT ![j] = @ + 1]

(* the map write ends, alone in the map: the pair is stored *)
WriteEnd(j, k) ==
    /\ ~crashed
    /\ wpc[j][k] = "writing"
    /\ Racing(j, k) = {}
    /\ finalResult' = [finalResult EXCEPT ![j] = MapPut(@, wres[j][k][1], wres[j][k][2])]
    /\ Progress(j)
    /\ wpc' = [wpc EXCEPT ![j][k] = "defer"]
    /\ WorkerFrame(j)
    /\ UNCHANGED <<wres, cacheVars, crashed>>

(* the map write ends while another goroutine is writing the same map: a   *)
(* data race on a Go map. The pair is stored, or the write is lost, or the *)
(* slot gets this key with the other writer's value.                       *)
WriteEndRaced(j, k) ==
    /\ ~crashed
    /\ wpc[j][k] = "writing"
    /\ \E o \in Racing(j, k) :
         \E m \in {MapPut(finalResult[j], wres[j][k][1], wres[j][k][2]),
                   finalResult[j],
                   MapPut(finalResult[j], wres[j][k][1], wres[j][o][2])} :
            finalResult' = [finalResult EXCEPT ![j] = m]
    /\ Progress(j)
    /\ wpc' = [wpc EXCEPT ![j][k] = "defer"]
    /\ WorkerFrame(j)
    /\ UNCHANGED <<wres, cacheVars, crashed>>

(* the runtime detects the race: fatal error: concurrent map writes *)
WriteCrash(j, k) ==
    /\ ~crashed
    /\ wpc[j][k] = "writing"
    /\ Racing(j, k) # {}
    /\ crashed' = TRUE
    /\ UNCHANGED <<call, handlerVars, state, info, durationSet, pc, cdxErr,
                   captures, launched, workerCh, wpc, wres, finalResult,
                   icount, hsetIssued, cacheVars, store>>

(* the deferred function: <-workerCh; wg.Done() *)
Release(j, k) ==
    /\ ~crashed
    /\ wpc[j][k] = "defer"
    /\ workerCh' = [workerCh EXCEPT ![j] = @ - 1]
    /\ wpc' = [wpc EXCEPT ![j][k] = "done"]
    /\ UNCHANGED <<call, handlerVars, durationSet, pc, cdxErr, captures,
                   launched, hsetIssued, store, state, info, wres,
                   finalResult, icount, cacheVars, crashed>>

(* ------------------------ RunJob after wg.Wait() ---------------------- *)
(* len(finalResult) != 0 *)
ShouldWriteAlways(j) == TRUE

ShouldWrite(j) == finalResult[j] # EmptyMap

(* wg.Wait() returns; State = COMPLETE; Info = "Processed ..." *)
Complete(j) ==
    /\ ~crashed
    /\ pc[j] = "run"
    /\ launched[j] = Len(captures[j])
    /\ \A k \in Workers(j) : wpc[j][k] = "done"
    /\ state' = [state EXCEPT ![j] = "COMPLETE"]
    /\ info' = [info EXCEPT ![j] = "processed"]
    /\ pc' = [pc EXCEPT ![j] = IF ShouldWrite(j) THEN "hset" ELSE "duration"]
    /\ UNCHANGED <<call, handlerVars, durationSet, cdxErr, captures,
                   launched, workerCh, wpc, wres, finalResult, icount,
                   hsetIssued, cacheVars, store, crashed>>

HSetReplace(st, key, fields) == MapPut(st, key, fields)

(* the store after HSet(key, fields): the fields are set in the hash *)
(* under key, its other fields are kept                              *)
HSet(st, key, fields) ==
    LET old == IF key \in DOMAIN st THEN st[key] ELSE EmptyMap
    IN MapPut(st, key, MapMerge(old, fields))

(* redisClient.HSet(urlKey, finalResult) succeeded *)
HSetOk(j) ==
    /\ ~crashed
    /\ pc[j] = "hset"
    /\ hsetIssued' = [hsetIssued EXCEPT ![j] = TRUE]
    /\ store' = HSet(store, Surt(url[j]), finalResult[j])
    /\ pc' = [pc EXCEPT ![j] = "expire"]
    /\ UNCHANGED <<call, handlerVars, state, info, durationSet, cdxErr,
                   captures, launched, workerCh, wpc, wres, finalResult,
                   icount, cacheVars, crashed>>

(* as HSetErr, but the error branch also sets State = ERROR *)
HSetErrRevertsState(j) ==
    /\ ~crashed
    /\ pc[j] = "hset"
    /\ hsetIssued' = [hsetIssued EXCEPT ![j] = TRUE]
    /\ state' = [state EXCEPT ![j] = "ERROR"]
    /\ info' = [info EXCEPT ![j] = "rediserror"]
    /\ pc' = [pc EXCEPT ![j] = "done"]
    /\ UNCHANGED <<call, handlerVars, durationSet, cdxErr, captures,
                   launched, workerCh, wpc, wres, finalResult, icount,
                   cacheVars, store, crashed>>

(* redisClient.HSet returned an error: Info is set, then return *)
HSetErr(j) ==
    /\ ~crashed
    /\ pc[j] = "hset"
    /\ hsetIssued' = [hsetIssued EXCEPT ![j] = TRUE]
    /\ info' = [info EXCEPT ![j] = "rediserror"]
    /\ pc' = [pc EXCEPT ![j] = "done"]
    /\ UNCHANGED <<call, handlerVars, state, durationSet, cdxErr, captures,
                   launched, workerCh, wpc, wres, finalResult, icount,
                   cacheVars, store, crashed>>

(* redisClient.Expire succeeded *)
ExpireOk(j) ==
    /\ ~crashed
    /\ pc[j] = "expire"
    /\ pc' = [pc EXCEPT ![j] = "duration"]
    /\ UNCHANGED <<call, handlerVars, state, info, durationSet, cdxErr,
                   captures, launched, workerCh, wpc, wres, finalResult,
                   icount, hsetIssued, cacheVars, store, crashed>>

(* redisClient.Expire returned an error: Info is set, then return *)
ExpireErr(j) ==
    /\ ~crashed
    /\ pc[j] = "expire"
    /\ info' = [info EXCEPT ![j] = "rediserror"]
    /\ pc' = [pc EXCEPT ![j] = "done"]
    /\ UNCHANGED <<call, handlerVars, state, durationSet, cdxErr, captures,
                   launched, workerCh, wpc, wres, finalResult, icount,
                   hsetIssued, cacheVars, store, crashed>>

(* j.Duration = time.Now().Sub(j.startTime); return *)
RecordDuration(j) ==
    /\ ~crashed
    /\ pc[j] = "duration"
    /\ durationSet' = [durationSet EXCEPT ![j] = TRUE]
    /\ pc' = [pc EXCEPT ![j] = "done"]
    /\ UNCHANGED <<call, handlerVars, state, info, cdxErr, captures,
                   launched, workerCh, wpc, wres, finalResult, icount,
                   hsetIssued, cacheVars, store, crashed>>

(* --------------------------- specifications --------------------------- *)
WorkerNext(j, k) ==
    \/ Malformed(j, k)
    \/ LookupHit(j, k)
    \/ LookupMiss(j, k)
    \/ DownloadFail(j, k)
    \/ DownloadOk(j, k)
    \/ StoreSimhash(j, k)
    \/ WriteEnd(j, k)
    \/ WriteEndRaced(j, k)
    \/ WriteCrash(j, k)
    \/ Release(j, k)

JobNext(j) ==
    \/ FetchCDXErr(j)
    \/ FetchCDXOk(j)
    \/ Dispatch(j)
    \/ Complete(j)
    \/ HSetOk(j)
    \/ HSetErr(j)
    \/ ExpireOk(j)
    \/ ExpireErr(j)
    \/ RecordDuration(j)
    \/ \E k \in Workers(j) : WorkerNext(j, k)

Next ==
    \/ \E u \in URLs, y \in Years : CalculatePending(u, y)
    \/ \E u \in URLs, y \in Years : CalculateStart(u, y)
    \/ \E j \in JobIds : Register(j)
    \/ \E j \in JobIds : JobNext(j)

Spec == Init /\ [][Next]_vars

(* every goroutine that can run is eventually scheduled, and every HTTP    *)
(* and store call returns                                                  *)
FairSpec == Spec /\ \A j \in JobIds : WF_vars(JobNext(j)) /\ WF_vars(Register(j))


(* ------------------------------ properties ---------------------------- *)
Started(j) == pc[j] # "none"
PastWait(j) == pc[j] \in {"hset", "expire", "duration", "done"} /\ ~cdxErr[j]
Failed(j, k) == wpc[j][k] = "done" /\ wres[j][k] = NoResult
Resolved(j, k) == wpc[j][k] = "done" /\ wres[j][k] # NoResult

(* C1: once RunJob has returned, a job's State is PENDING, COMPLETE or      *)
(* ERROR; every change of State goes from PENDING to COMPLETE or from       *)
(* PENDING to ERROR, so a job leaves PENDING at most once and a COMPLETE or *)
(* ERROR job keeps its State, also when the store write fails afterwards.   *)
C1_JobStateMachine ==
    [][\A j \in JobIds :
          /\ pc'[j] # "none" => state'[j] \in {"PENDING", "COMPLETE", "ERROR"}
          /\ (pc[j] # "none" /\ state'[j] # state[j]) =>
                (state[j] = "PENDING" /\ state'[j] \in {"COMPLETE", "ERROR"})]_vars

(* a job whose workers reported progress, that became COMPLETE and whose    *)
(* store write then failed                                                  *)
C1_Witness ==
    \E j \in JobIds :
       /\ pc[j] = "done" /\ state[j] = "COMPLETE"
       /\ info[j] = "rediserror" /\ icount[j] > 0

(* C2: every job RunJob started eventually reaches COMPLETE or ERROR, for   *)
(* any capture list and any number of concurrent jobs, when every call      *)
(* returns and scheduling is fair. A run that the runtime aborted is not    *)
(* held against the claim here.                                             *)
C2_EveryJobTerminates ==
    \A j \in JobIds :
       (pc[j] = "fetch") ~> (state[j] \in {"COMPLETE", "ERROR"} \/ crashed)

(* C3: State is ERROR only when FetchCDX returned an error; a capture that  *)
(* fails never makes the job ERROR; a job whose listing succeeded and whose *)
(* workers have all finished becomes COMPLETE, even if every capture failed.*)
C3_ErrorOnlyFromListing ==
    \A j \in JobIds :
       /\ state[j] = "ERROR" => cdxErr[j]
       /\ PastWait(j) => state[j] = "COMPLETE"
       /\ (pc[j] = "run" /\ launched[j] = Len(captures[j])
             /\ \A k \in Workers(j) : wpc[j][k] = "done") => ENABLED Complete(j)

(* a COMPLETE job all of whose captures failed, one of them in the download *)
C3_Witness ==
    \E j \in JobIds :
       /\ PastWait(j) /\ state[j] = "COMPLETE"
       /\ Len(captures[j]) >= 2
       /\ \A k \in Workers(j) : Failed(j, k)
       /\ \E k \in Workers(j) : Len(Parts(j, k)) >= 2
       /\ \E k \in Workers(j) : Len(Parts(j, k)) < 2

(* C4: the registry never holds two PENDING jobs for the same (url, year). *)
C4_OnePendingJobPerPair ==
    \A a \in jobsMap, b \in jobsMap :
       (a # b /\ url[a] = url[b] /\ year[a] = year[b]) =>
          ~(state[a] = "PENDING" /\ state[b] = "PENDING")

(* C5: within one job the capture goroutines in flight never exceed the     *)
(* concurrency limit, and each goroutine that finished has given its slot   *)
(* back, whether or not its capture succeeded.                              *)
C5_PoolBound ==
    \A j \in JobIds :
       /\ InFlight(j) <= CONCURRENCY_LIMIT
       /\ workerCh[j] = InFlight(j)

(* the pool is full, a failed and a successful capture have given their     *)
(* slots back and a capture is still waiting for a slot                     *)
C5_Witness ==
    \E j \in JobIds :
       /\ Len(captures[j]) > CONCURRENCY_LIMIT
       /\ InFlight(j) = CONCURRENCY_LIMIT
       /\ launched[j] < Len(captures[j])

(* C6: for every digest a fingerprint is computed at most once. *)
C6_ComputedAtMostOnce ==
    \A d \in Digests : computed[d] <= 1

(* C7: once a fingerprint is stored under a digest it stays there unchanged *)
(* and is the fingerprint of that digest; a lookup of a stored digest       *)
(* returns the stored fingerprint and goes on without downloading;          *)
(* concurrent misses that each store leave that one value.                  *)
C7_CacheConsistent ==
    [][/\ \A d \in DOMAIN simhashMap :
             d \in DOMAIN simhashMap' /\ simhashMap'[d] = simhashMap[d]
       /\ \A d \in DOMAIN simhashMap' : simhashMap'[d] = Fp(d)
       /\ \A j \in JobIds : \A k \in DOMAIN wpc[j] :
             (/\ wpc[j][k] = "calc" /\ wpc'[j][k] # "calc"
              /\ Len(Parts(j, k)) >= 2
              /\ Digest(j, k) \in DOMAIN simhashMap)
             => /\ wpc'[j][k] = "writing"
                /\ wres'[j][k] = <<Timestamp(j, k), simhashMap[Digest(j, k)]>>
                /\ computed' = computed]_vars

(* two workers missed on the same digest and each computed and stored, and  *)
(* a later lookup of that digest was answered from the cache                *)
C7_Witness ==
    \E d \in Digests :
       /\ computed[d] >= 2
       /\ d \in DOMAIN simhashMap
       /\ muLocked
       /\ \E j \in JobIds :
             /\ Len(captures[j]) >= 3
             /\ \A k \in Workers(j) :
                   Len(Parts(j, k)) >= 2 /\ Digest(j, k) = d /\ Resolved(j, k)

(* the pairs the capture goroutines of job j got back from GetCalculation *)
ResolvedMap(j) ==
    LET ok == {k \in Workers(j) : wres[j][k] # NoResult}
    IN [t \in {wres[j][k][1] : k \in ok} |->
           wres[j][CHOOSE k \in ok : wres[j][k][1] = t][2]]

(* C8: the result map a job commits holds, whatever the order in which its  *)
(* capture goroutines ran, one pair for each capture that was resolved from *)
(* the digest cache or downloaded, extracted and encoded.                   *)
C8_ResultIsResolvedPairs ==
    \A j \in JobIds : PastWait(j) => finalResult[j] = ResolvedMap(j)

(* C9: a record exists under a key only if a job for a URL with that key    *)
(* accumulated at least one pair; a job with an empty result map and a job  *)
(* that ended in ERROR issue no write to the store.                         *)
C9_RecordOnlyFromResults ==
    /\ \A key \in DOMAIN store :
          \E j \in JobIds :
             /\ Started(j) /\ Surt(url[j]) = key
             /\ finalResult[j] # EmptyMap /\ hsetIssued[j]
    /\ \A j \in JobIds :
          hsetIssued[j] => (state[j] = "COMPLETE" /\ finalResult[j] # EmptyMap)

(* a finished job with an empty result map and an ERROR job, neither of     *)
(* which wrote, and no record in the store                                  *)
C9_Witness ==
    /\ store = EmptyMap
    /\ \E j \in JobIds :
          /\ pc[j] = "done" /\ state[j] = "COMPLETE"
          /\ finalResult[j] = EmptyMap /\ ~hsetIssued[j]
    /\ \E j \in JobIds :
          pc[j] = "done" /\ state[j] = "ERROR" /\ ~hsetIssued[j]

(* C10: a job whose listing succeeded ends COMPLETE with its duration       *)
(* recorded, also when nothing was written or the store write failed.       *)
C10_CompleteWithDuration ==
    \A j \in JobIds :
       (pc[j] = "done" /\ ~cdxErr[j]) => (state[j] = "COMPLETE" /\ durationSet[j])


(* C19: mu is held only inside a cache lookup or a cache store: every path  *)
(* through GetCalculation has released it when it returns, so between two   *)
(* steps of the workers the mutex is free and no worker waits for it        *)
(* forever.                                                                 *)
C19_MutexReleased == ~muLocked

(* C20: within one job no two capture goroutines are at the write of the    *)
(* job-local result map at the same time.                                   *)
C20_ResultWritesExclusive ==
    \A j \in JobIds :
       Cardinality({k \in Workers(j) : wpc[j][k] = "writing"}) <= 1


(* ------------------------- Job.DownloadCapture ------------------------ *)
MAX_RETRIES == 2
MAP_CAPTURE_DOWNLOAD == 1000000

(* resp == nil *)
NoResp == [status |-> 0, enc |-> "", text |-> FALSE, size |-> 0]

(* the length of a body: of the bytes sent when there is no               *)
(* Content-Encoding, of the decompressed bytes otherwise; below and above *)
(* the ceiling                                                            *)
BodySizes == {1, MAP_CAPTURE_DOWNLOAD + 1}

(* an HTTP response: status code, Content-Encoding, text Content-Type, *)
(* length of the body                                                  *)
Responses == [status : {200, 404}, enc : {"", "gzip", "deflate"},
              text : BOOLEAN, size : BodySizes]

(* len(data) after io.ReadAll(reader): reader is the LimitReader over     *)
(* resp.Body, or the gzip or flate reader, which reads resp.Body directly *)
ReadAll(r) ==
    IF r.enc = ""
    THEN (IF r.size < MAP_CAPTURE_DOWNLOAD THEN r.size
          ELSE MAP_CAPTURE_DOWNLOAD)
    ELSE r.size

(* what one pass of the loop meets: generateGetRequest fails, HTTPClient.Do *)
(* fails at transport level, or HTTPClient.Do returns a response            *)
Outcomes == {[kind |-> "reqerr", resp |-> NoResp],
             [kind |-> "transport", resp |-> NoResp]}
            \cup {[kind |-> "response", resp |-> r] : r \in Responses}

(* the outcomes the first, second, ... request of one download would meet *)
OutcomeSeqs == [1..(MAX_RETRIES + 1) -> Outcomes]

DownloadInit ==
    /\ JobInit
    /\ call \in {[fn |-> "DownloadCapture", pc |-> "loop", i |-> 0,
                  outcomes |-> o, attempts |-> 0, resp |-> NoResp,
                  ret |-> "", len |-> 0] : o \in OutcomeSeqs}

InDownload(p) == call.fn = "DownloadCapture" /\ call.pc = p

(* for i := 0; i < MAX_RETRIES; i++ *)
LoopRuns(i) == i < MAX_RETRIES

(* a pass of the loop that ends in continue: no request could be built, or  *)
(* HTTPClient.Do returned an error                                          *)
DownloadRetry ==
    /\ InDownload("loop")
    /\ LoopRuns(call.i)
    /\ LET o == call.outcomes[call.i + 1]
       IN /\ o.kind \in {"reqerr", "transport"}
          /\ call' = [call EXCEPT !.i = @ + 1,
                         !.attempts = IF o.kind = "transport" THEN @ + 1 ELSE @]
    /\ UNCHANGED jobVars

(* a pass of the loop in which HTTPClient.Do returned a response: break *)
DownloadResponse ==
    /\ InDownload("loop")
    /\ LoopRuns(call.i)
    /\ LET o == call.outcomes[call.i + 1]
       IN /\ o.kind = "response"
          /\ call' = [call EXCEPT !.attempts = @ + 1, !.resp = o.resp,
                                  !.pc = "read"]
    /\ UNCHANGED jobVars

(* the loop ran out with resp == nil: return "" *)
DownloadGiveUp ==
    /\ InDownload("loop")
    /\ ~LoopRuns(call.i)
    /\ call' = [call EXCEPT !.pc = "done", !.ret = ""]
    /\ UNCHANGED jobVars

(* the body is decompressed and read; a gzip header or read error returns   *)
(* "", a body whose Content-Type is not text or html returns ""             *)
DownloadRead ==
    /\ InDownload("read")
    /\ \E readOk \in BOOLEAN :
          LET text == readOk /\ call.resp.text
          IN call' = [call EXCEPT !.pc = "done",
                         !.ret = IF text THEN "body" ELSE "",
                         !.len = IF text THEN ReadAll(call.resp) ELSE 0]
    /\ UNCHANGED jobVars

DownloadNext ==
    \/ DownloadRetry
    \/ DownloadResponse
    \/ DownloadGiveUp
    \/ DownloadRead

DownloadSpec == DownloadInit /\ [][DownloadNext]_vars

(* C11: DownloadCapture retries only on transport-level failure, up to      *)
(* MAX_RETRIES additional attempts after the first: when every attempt      *)
(* fails at transport level it has made MAX_RETRIES + 1 attempts when it    *)
(* returns empty, and it makes no attempt after one that got a response.    *)
C11_RetriesAfterFirstAttempt ==
    (call.fn = "DownloadCapture" /\ call.pc = "done") =>
       /\ (\A n \in 1..(MAX_RETRIES + 1) : call.outcomes[n].kind = "transport")
             => (call.attempts = MAX_RETRIES + 1 /\ call.ret = "")
       /\ \A n \in 1..(MAX_RETRIES + 1) :
             call.outcomes[n].kind = "response" => call.attempts <= n


(* ---------------------- query layer: stored records ------------------- *)
(* Strings the query layer slices and compares are sequences of digits.   *)
MaxPage == 4
MaxPerPage == 2

Y2023 == <<2,0,2,3>>
Ta == <<2,0,2,3,0,1,0,1,0,1,0,1,0,1>>
Tb == <<2,0,2,3,0,1,0,1,0,2,0,2,0,2>>
Tc == <<2,0,2,3,0,2,1,5,0,3,0,3,0,3>>
Td == <<2,0,2,2,1,2,3,1,2,3,5,9,5,9>>

(* field names of the hash stored under one key: capture timestamps and   *)
(* the bare year                                                          *)
Fields == {Y2023, Ta, Tb, Tc, Td}

(* the hash stored under Surt(url): any subset of the fields, each with a *)
(* value; a value may be the empty string                                 *)
FieldValues(f) ==
    IF f = Y2023 THEN {"", "-1"}
    ELSE IF f = Ta THEN {"", "AAA", "BBB"}
    ELSE {"AAA", "BBB"}

Records ==
    UNION {{r \in [S -> {"", "-1", "AAA", "BBB"}] :
               \A f \in S : r[f] \in FieldValues(f)} : S \in SUBSET Fields}

(* the year parameter of GET /simhash is not validated: any string *)
YearStrings == {<< >>, <<2,0,2>>, Y2023, <<2,0,2,2>>, <<1,9,9,9>>, Ta}

HasPrefixAlways(str, prefix) == TRUE

(* strings.HasPrefix *)
HasPrefix(str, prefix) ==
    /\ Len(prefix) <= Len(str)
    /\ SubSeq(str, 1, Len(prefix)) = prefix

(* the order of Go strings: byte-wise lexicographic *)
LexLess(a, b) ==
    \E k \in 0..Len(a) :
       /\ k <= Len(b)
       /\ \A i \in 1..k : a[i] = b[i]
       /\ IF k = Len(a) THEN k < Len(b)
          ELSE k < Len(b) /\ a[k + 1] < b[k + 1]

(* HKeys followed by slices.Sort *)
RECURSIVE SortStrings(_)
SortStrings(S) ==
    IF S = {} THEN << >>
    ELSE LET m == CHOOSE x \in S : \A y \in S \ {x} : LexLess(x, y)
         IN <<m>> \o SortStrings(S \ {m})

(* the loop of YearSimhash that collects the fields with the year prefix *)
timeStampsToFetch(timestamps, y) ==
    SelectSeq(timestamps, LAMBDA ts : HasPrefix(ts, y))

(* the results of converting +Inf to int: the most negative int on amd64, *)
(* the most positive on arm64                                             *)
InfToInt == {-(2^30), 2^30}

(* int(math.Ceil(float64(n) / float64(perPage))) *)
totalPages(n, perPage) ==
    IF perPage > 0 THEN {(n + perPage - 1) \div perPage}
    ELSE IF perPage < 0 THEN {-(n \div (-perPage))}
    ELSE InfToInt

Min(a, b) == IF a < b THEN a ELSE b

(* the page the handler passes: strconv.Atoi of the page parameter, 0 when *)
(* it is absent, -1 when it is not a number                               *)
Pages == (-2)..MaxPage

YearInit ==
    /\ JobInit
    /\ call \in {[fn |-> "YearSimhash", pc |-> "start", record |-> r,
                  year |-> y, page |-> p, perPage |-> pp,
                  timestamps |-> << >>, sliced |-> FALSE, start |-> 0,
                  end |-> 0, ret |-> << >>, err |-> ""] :
                    r \in Records, y \in YearStrings,
                    p \in Pages, pp \in (-1)..MaxPerPage}

InYear(p) == call.fn = "YearSimhash" /\ call.pc = p

(* if url == "" || year == "" *)
YearInvalid ==
    /\ InYear("start")
    /\ call.year = << >>
    /\ call' = [call EXCEPT !.pc = "done",
                            !.err = "invalid URL or timestamp"]
    /\ UNCHANGED jobVars

(* HKeys; no field: NO_CAPTURES; otherwise slices.Sort *)
YearHKeys ==
    /\ InYear("start")
    /\ call.year # << >>
    /\ IF DOMAIN call.record = {}
       THEN call' = [call EXCEPT !.pc = "done", !.err = "NO_CAPTURES"]
       ELSE call' = [call EXCEPT !.pc = "scan",
                        !.timestamps = SortStrings(DOMAIN call.record)]
    /\ UNCHANGED jobVars

(* the scan of the sorted fields *)
YearScan ==
    /\ InYear("scan")
    /\ LET toFetch == timeStampsToFetch(call.timestamps, call.year)
       IN IF \E i \in 1..Len(call.timestamps) :
                 call.timestamps[i] = call.year
          THEN call' = [call EXCEPT !.pc = "done", !.err = "NO_CAPTURES"]
          ELSE IF toFetch = << >>
          THEN call' = [call EXCEPT !.pc = "done", !.err = "NO_CAPTURES"]
          ELSE call' = [call EXCEPT !.pc = "page", !.timestamps = toFetch]
    /\ UNCHANGED jobVars

(* handleResults, the page: timestamps = timestamps[start:end] *)
handleResultsPage ==
    /\ InYear("page")
    /\ LET n == Len(call.timestamps)
       IN IF call.page = -1
          THEN call' = [call EXCEPT !.pc = "hmget"]
          ELSE \E tp \in totalPages(n, call.perPage) :
                 IF tp <= 0
                 THEN call' = [call EXCEPT !.pc = "hmget"]
                 ELSE LET page == Min(call.page, tp)
                          start == (page - 1) * call.perPage
                          end == Min(page * call.perPage, n)
                      IN IF start < 0 \/ start > end
                         THEN call' = [call EXCEPT !.pc = "done",
                                          !.sliced = TRUE, !.start = start,
                                          !.end = end, !.err = "panic"]
                         ELSE call' = [call EXCEPT !.pc = "hmget",
                                 !.sliced = TRUE, !.start = start,
                                 !.end = end,
                                 !.timestamps = SubSeq(@, start + 1, end)]
    /\ UNCHANGED jobVars

(* handleResults, the fetch: HMGet of no field is an error and gives nil *)
handleResultsFetch ==
    /\ InYear("hmget")
    /\ call' = [call EXCEPT !.pc = "done",
                   !.ret = [i \in 1..Len(call.timestamps) |->
                              <<call.timestamps[i],
                                call.record[call.timestamps[i]]>>]]
    /\ UNCHANGED jobVars

YearNext ==
    \/ YearInvalid
    \/ YearHKeys
    \/ YearScan
    \/ handleResultsPage
    \/ handleResultsFetch

YearSpec == YearInit /\ [][YearNext]_vars

(* the fields of the record that start with the requested year *)
Matching ==
    {f \in DOMAIN call.record :
        \E k \in 0..Len(f) : SubSeq(f, 1, k) = call.year}

(* no page is selected: page is the sentinel or the page count is not *)
(* positive                                                           *)
Unpaged == call.page = -1 \/ call.perPage < 0

(* ret holds exactly the pairs of the fields in F, by ascending field *)
ReturnsSorted(F) ==
    /\ call.err = ""
    /\ Len(call.ret) = Cardinality(F)
    /\ {call.ret[i] : i \in 1..Len(call.ret)} =
          {<<f, call.record[f]>> : f \in F}
    /\ \A i \in 1..Len(call.ret) : \A k \in 1..Len(call.ret) :
          i < k => LexLess(call.ret[i][1], call.ret[k][1])

(* C12 as stated: a query by year fails with NO_CAPTURES when the record   *)
(* has no field or no field starts with the requested year, and in every   *)
(* other case returns exactly the matching pairs, ascending by timestamp.  *)
C12_YearQueryAsStated ==
    (InYear("done") /\ call.year # << >> /\ Unpaged) =>
       IF DOMAIN call.record = {} \/ Matching = {}
       THEN call.err = "NO_CAPTURES" /\ call.ret = << >>
       ELSE ReturnsSorted(Matching)

(* C12, amended: an empty year is invalid input; a query by year fails     *)
(* with NO_CAPTURES when the record has no field, when a field equals the  *)
(* requested year string, or when no field starts with it; in every other  *)
(* case, with no page selected, it returns exactly the matching pairs,     *)
(* ascending by timestamp.                                                 *)
C12_YearQuery ==
    InYear("done") =>
       IF call.year = << >>
       THEN call.err = "invalid URL or timestamp" /\ call.ret = << >>
       ELSE IF \/ DOMAIN call.record = {}
               \/ call.year \in DOMAIN call.record
               \/ Matching = {}
       THEN call.err = "NO_CAPTURES" /\ call.ret = << >>
       ELSE Unpaged => ReturnsSorted(Matching)

C12_Witness ==
    /\ InYear("done")
    /\ Unpaged
    /\ call.err = ""
    /\ Len(call.ret) >= 2
    /\ DOMAIN call.record # Matching


(* --------------------------- TimestampSimHash ------------------------- *)
Te == <<1,9,9,9,0,1,0,1,0,0,0,0,0,0>>

(* the timestamp parameter of GET /simhash: stored and unstored capture   *)
(* times, and strings that are not a time                                 *)
QueryTimestamps ==
    {Ta, Tb, Td, Te, << >>, Y2023,
     <<2,0,2,3,1,3,0,1,0,0,0,0,0,0>>, <<2,0,2,3,0,2,3,0,0,0,0,0,0,0>>,
     <<2,0,2,3,0,1,0,1,2,4,0,0,0,0>>}

(* strconv.Atoi of a string of digits *)
RECURSIVE atoi(_)
atoi(str) ==
    IF str = << >> THEN 0
    ELSE 10 * atoi(SubSeq(str, 1, Len(str) - 1)) + str[Len(str)]

DaysIn(y, m) ==
    IF m \in {4, 6, 9, 11} THEN 30
    ELSE IF m # 2 THEN 31
    ELSE IF y % 4 = 0 /\ (y % 100 # 0 \/ y % 400 = 0) THEN 29
    ELSE 28

(* time.Parse("20060102150405", timestamp) succeeds *)
validateTimestamp(ts) ==
    /\ Len(ts) = 14
    /\ atoi(SubSeq(ts, 5, 6)) \in 1..12
    /\ atoi(SubSeq(ts, 7, 8)) \in
          1..DaysIn(atoi(SubSeq(ts, 1, 4)), atoi(SubSeq(ts, 5, 6)))
    /\ atoi(SubSeq(ts, 9, 10)) <= 23
    /\ atoi(SubSeq(ts, 11, 12)) <= 59
    /\ atoi(SubSeq(ts, 13, 14)) <= 59

(* HGet(key, field).Result(): a field that is not in the hash is the *)
(* error redis.Nil                                                   *)
HGet(record, field) ==
    IF field \in DOMAIN record
    THEN [err |-> FALSE, result |-> record[field]]
    ELSE [err |-> TRUE, result |-> ""]

YearAnswerSwapped(result) ==
    IF result # "" THEN "CAPTURE_NOT_FOUND" ELSE "NO_CAPTURES"

(* the answer after the lookup of timestamp[:4] *)
YearAnswer(result) ==
    IF result # "" THEN "NO_CAPTURES" ELSE "CAPTURE_NOT_FOUND"

TimestampInit ==
    /\ JobInit
    /\ call \in {[fn |-> "TimestampSimHash", pc |-> "start", record |-> r,
                  timestamp |-> t, simhash |-> "", message |-> "",
                  err |-> ""] : r \in Records, t \in QueryTimestamps}

InTimestamp(p) == call.fn = "TimestampSimHash" /\ call.pc = p

(* timestamp == "" || !validateTimestamp(timestamp) *)
TimestampInvalid ==
    /\ InTimestamp("start")
    /\ ~validateTimestamp(call.timestamp)
    /\ call' = [call EXCEPT !.pc = "done",
                            !.err = "invalid URL or timestamp"]
    /\ UNCHANGED jobVars

(* HGet(key, timestamp) *)
TimestampExact ==
    /\ InTimestamp("start")
    /\ validateTimestamp(call.timestamp)
    /\ LET r == HGet(call.record, call.timestamp)
       IN IF r.err
          THEN call' = [call EXCEPT !.pc = "done",
                           !.err = "error loading simhash data"]
          ELSE IF r.result # ""
          THEN call' = [call EXCEPT !.pc = "done", !.simhash = r.result]
          ELSE call' = [call EXCEPT !.pc = "year"]
    /\ UNCHANGED jobVars

(* HGet(key, timestamp[:4]) *)
TimestampYear ==
    /\ InTimestamp("year")
    /\ LET r == HGet(call.record, SubSeq(call.timestamp, 1, 4))
       IN IF r.err
          THEN call' = [call EXCEPT !.pc = "done",
                           !.err = "error loading simhash data"]
          ELSE call' = [call EXCEPT !.pc = "done",
                           !.message = YearAnswer(r.result)]
    /\ UNCHANGED jobVars

TimestampNext ==
    \/ TimestampInvalid
    \/ TimestampExact
    \/ TimestampYear

TimestampSpec == TimestampInit /\ [][TimestampNext]_vars

(* the record holds a value under the field *)
HoldsValue(field) ==
    field \in DOMAIN call.record /\ call.record[field] # ""

YearPrefix == SubSeq(call.timestamp, 1, 4)

Answered == InTimestamp("done") /\ validateTimestamp(call.timestamp)

(* C13: a query by a valid timestamp t returns the fingerprint stored      *)
(* under t; when none is stored under t it answers NO_CAPTURES if an entry *)
(* exists under t's 4-digit year prefix and CAPTURE_NOT_FOUND if not.      *)
C13_TimestampFallback ==
    Answered =>
       IF HoldsValue(call.timestamp)
       THEN call.err = "" /\ call.simhash = call.record[call.timestamp]
       ELSE /\ call.err = ""
            /\ call.simhash = ""
            /\ call.message = IF HoldsValue(YearPrefix) THEN "NO_CAPTURES"
                              ELSE "CAPTURE_NOT_FOUND"

Paged ==
    /\ InYear("done")
    /\ call.year # << >>
    /\ call.year \notin DOMAIN call.record
    /\ Matching # {}

(* the sorted year-matching results *)
AllResults ==
    LET ts == SortStrings(Matching)
    IN [i \in 1..Len(ts) |-> <<ts[i], call.record[ts[i]]>>]

(* the items of page p when each page has perPage > 0 items *)
PageOf(all, page, perPage) ==
    LET n == Len(all)
        p == Min(page, (n + perPage - 1) \div perPage)
    IN SubSeq(all, (p - 1) * perPage + 1, Min(p * perPage, n))

(* C15: for perPage > 0 and page >= 1 the result is the items             *)
(* (p-1)*perPage+1 .. min(p*perPage, n) with p = min(page, ceil(n /       *)
(* perPage)); for perPage <= 0 all n results are returned, whatever the   *)
(* page.                                                                  *)
C15_Pagination ==
    Paged =>
       /\ (call.perPage > 0 /\ call.page >= 1) =>
             (call.err = "" /\
              call.ret = PageOf(AllResults, call.page, call.perPage))
       /\ call.perPage <= 0 => (call.err = "" /\ call.ret = AllResults)


(* --------------------------- CompressCaptures ------------------------- *)
MaxList == 3

(* a CaptureResult: Timestamp and Simhash *)
CaptureResults == {<<t, h>> : t \in {Ta, Tb, Tc, Td}, h \in {"AAA", "BBB"}}

CaptureResultLists == UNION {[1..n -> CaptureResults] : n \in 0..MaxList}

hashIDFresh(hashDict, simhash) == Cardinality(DOMAIN hashDict)

(* hashDict[simhash] after `if !exists { hashDict[simhash] = len(hashDict) }` *)
hashID(hashDict, simhash) ==
    IF simhash \in DOMAIN hashDict THEN hashDict[simhash]
    ELSE Cardinality(DOMAIN hashDict)

(* m[k], or the empty map made for a key that is not yet in m *)
MapGet(m, k) == IF k \in DOMAIN m THEN m[k] ELSE EmptyMap

(* grouped[year][month][day], nil for a day that is not yet in the map *)
DayList(grouped, y, m, d) ==
    LET mc == MapGet(MapGet(grouped, y), m)
    IN IF d \in DOMAIN mc THEN mc[d] ELSE << >>

(* grouped[year][month][day] = append(grouped[year][month][day], entry) *)
GroupedAppend(grouped, y, m, d, entry) ==
    LET yc == MapGet(grouped, y)
        mc == MapGet(yc, m)
    IN MapPut(grouped, y,
              MapPut(yc, m,
                     MapPut(mc, d, Append(DayList(grouped, y, m, d), entry))))

CompressInit ==
    /\ JobInit
    /\ call \in {[fn |-> "CompressCaptures", pc |-> "loop", captures |-> c,
                  k |-> 1, hashDict |-> EmptyMap, grouped |-> EmptyMap,
                  newCaptures |-> {}, sortedHashes |-> << >>] :
                    c \in CaptureResultLists}

InCompress(p) == call.fn = "CompressCaptures" /\ call.pc = p

(* one pass of `for _, capture := range captures` *)
CompressCapture ==
    /\ InCompress("loop")
    /\ call.k <= Len(call.captures)
    /\ LET ts == call.captures[call.k][1]
           simhash == call.captures[call.k][2]
           yr == atoi(SubSeq(ts, 1, 4))
           month == atoi(SubSeq(ts, 5, 6))
           day == atoi(SubSeq(ts, 7, 8))
           hms == SubSeq(ts, 9, Len(ts))
           id == hashID(call.hashDict, simhash)
       IN call' = [call EXCEPT
                     !.k = @ + 1,
                     !.hashDict = MapPut(@, simhash, id),
                     !.grouped = GroupedAppend(@, yr, month, day,
                                               <<hms, id>>)]
    /\ UNCHANGED jobVars

(* the loops that build newCaptures and sortedHashes; a map is ranged over *)
(* in no fixed order, so the entries of a level are kept as a set; a slot  *)
(* of sortedHashes that no id names keeps the zero value ""                *)
CompressReturn ==
    /\ InCompress("loop")
    /\ call.k > Len(call.captures)
    /\ LET g == call.grouped
           hd == call.hashDict
           monthEntry(yc, m) ==
               <<m, {<<d, yc[m][d]>> : d \in DOMAIN yc[m]}>>
           yearEntry(y) ==
               <<y, {monthEntry(g[y], m) : m \in DOMAIN g[y]}>>
       IN call' = [call EXCEPT
                     !.pc = "done",
                     !.newCaptures = {yearEntry(y) : y \in DOMAIN g},
                     !.sortedHashes =
                        [i \in 1..Cardinality(DOMAIN hd) |->
                           IF \E h \in DOMAIN hd : hd[h] = i - 1
                           THEN CHOOSE h \in DOMAIN hd : hd[h] = i - 1
                           ELSE ""]]
    /\ UNCHANGED jobVars

CompressNext ==
    \/ CompressCapture
    \/ CompressReturn

CompressSpec == CompressInit /\ [][CompressNext]_vars

(* the distinct fingerprints of a list, in order of first encounter *)
RECURSIVE FirstSeen(_)
FirstSeen(cs) ==
    IF cs = << >> THEN << >>
    ELSE LET before == FirstSeen(SubSeq(cs, 1, Len(cs) - 1))
             h == cs[Len(cs)][2]
         IN IF \E i \in 1..Len(before) : before[i] = h THEN before
            ELSE Append(before, h)

(* the emitted entries: year, month, day, position in the day, (hms, id) *)
EmittedEntries ==
    UNION {UNION {UNION {{<<ye[1], me[1], de[1], i, de[2][i]>> :
                            i \in 1..Len(de[2])} :
                         de \in me[2]} :
                  me \in ye[2]} :
           ye \in call.newCaptures}

(* C16: the hash list is the distinct fingerprints in order of first       *)
(* encounter, so ids are dense 0..k-1; hashes[id] is the fingerprint of    *)
(* every emitted (hhmmss, id) pair; every input capture is emitted exactly *)
(* once, under the year, month and day of its timestamp.                   *)
C16_CompressCaptures ==
    InCompress("done") =>
       /\ call.sortedHashes = FirstSeen(call.captures)
       /\ Cardinality(EmittedEntries) = Len(call.captures)
       /\ \A e \in EmittedEntries :
             e[5][2] \in 0..(Len(call.sortedHashes) - 1)
       /\ \A c \in {call.captures[i] : i \in 1..Len(call.captures)} :
             Cardinality({e \in EmittedEntries :
                            /\ e[1] = atoi(SubSeq(c[1], 1, 4))
                            /\ e[2] = atoi(SubSeq(c[1], 5, 6))
                            /\ e[3] = atoi(SubSeq(c[1], 7, 8))
                            /\ e[5][1] = SubSeq(c[1], 9, 14)
                            /\ call.sortedHashes[e[5][2] + 1] = c[2]})
             = Cardinality({i \in 1..Len(call.captures) :
                              call.captures[i] = c})

C16_Witness ==
    /\ InCompress("done")
    /\ Len(call.captures) = 3
    /\ Len(call.sortedHashes) = 2
    /\ call.captures[1][2] = call.captures[2][2]
    /\ Cardinality(call.newCaptures) = 2


(* ------------------------------ GetSimhash ---------------------------- *)
MaxBytes == 2
MaxWeight == 2

(* the size parameter: a multiple of 8 *)
Sizes == {8 * n : n \in 1..MaxBytes}

FeatureKeys == {"k1", "k2", "k3"}

(* a feature map: a weight for some of the keys; weights <= 0 are skipped *)
FeatureMaps ==
    UNION {[S -> (-1)..MaxWeight] : S \in SUBSET FeatureKeys}

(* BLAKE2b-512 of the key as a number: a fixed value for each key; only  *)
(* its low size bits are used                                            *)
hashFunc(data) ==
    CASE data = "k1" -> 10845603
      [] data = "k2" -> 6012524
      [] OTHER -> 13395711

(* h.Bit(i) *)
Bit(h, i) == (h \div (2^i)) % 2

AccumulateLast(acc, bit, v) == IF bit = 1 THEN v ELSE -v

(* vector[i] += v when the bit is set, vector[i] -= v otherwise *)
Accumulate(acc, bit, v) == IF bit = 1 THEN acc + v ELSE acc - v

NonNegative(acc) == acc >= 0

(* if vector[i] > 0 *)
Positive(acc) == acc > 0

(* value.SetBit(value, i, 1) for each i with vector[i] > 0 *)
RECURSIVE SetBits(_, _)
SetBits(vector, n) ==
    IF n = 0 THEN 0
    ELSE (IF Positive(vector[n]) THEN 2^(n - 1) ELSE 0)
         + SetBits(vector, n - 1)

Reverse(seq) == [i \in 1..Len(seq) |-> seq[Len(seq) + 1 - i]]

(* FillBytes: big-endian bytes; then reversed to little endian *)
packSimhashToBytes(simhash, size) ==
    LET sizeInBytes == size \div 8
        bytes == [i \in 1..sizeInBytes |->
                    (simhash \div (256^(sizeInBytes - i))) % 256]
    IN Reverse(bytes)

(* base64.StdEncoding.EncodeToString: the indexes into the alphabet, 64 *)
(* for the padding character                                            *)
RECURSIVE EncodeToString(_)
EncodeToString(bytes) ==
    IF Len(bytes) = 0 THEN << >>
    ELSE IF Len(bytes) = 1
    THEN <<bytes[1] \div 4, (bytes[1] % 4) * 16, 64, 64>>
    ELSE IF Len(bytes) = 2
    THEN <<bytes[1] \div 4, (bytes[1] % 4) * 16 + bytes[2] \div 16,
           (bytes[2] % 16) * 4, 64>>
    ELSE <<bytes[1] \div 4, (bytes[1] % 4) * 16 + bytes[2] \div 16,
           (bytes[2] % 16) * 4 + bytes[3] \div 64, bytes[3] % 64>>
         \o EncodeToString(SubSeq(bytes, 4, Len(bytes)))

encodeSimhashToBase64(simhash, size) ==
    EncodeToString(packSimhashToBytes(simhash, size))

SimhashInit ==
    /\ JobInit
    /\ call \in {[fn |-> "GetSimhash", pc |-> "range", features |-> f,
                  size |-> sz, todo |-> DOMAIN f,
                  vector |-> [i \in 1..sz |-> 0], value |-> 0,
                  bytes |-> << >>, out |-> << >>] :
                    f \in FeatureMaps, sz \in Sizes}

InSimhash(p) == call.fn = "GetSimhash" /\ call.pc = p

(* one pass of `for k, v := range features`: the map is ranged over in no *)
(* fixed order                                                            *)
SimhashFeature ==
    /\ InSimhash("range")
    /\ \E k \in call.todo :
          LET v == call.features[k]
              h == hashFunc(k) % (2^call.size)
          IN call' = [call EXCEPT
                        !.todo = @ \ {k},
                        !.vector = IF v <= 0 THEN @
                                   ELSE [i \in 1..call.size |->
                                           Accumulate(@[i], Bit(h, i - 1), v)]]
    /\ UNCHANGED jobVars

(* the bits of the value, and its encoding *)
SimhashEncode ==
    /\ InSimhash("range")
    /\ call.todo = {}
    /\ LET value == SetBits(call.vector, call.size)
       IN call' = [call EXCEPT
                     !.pc = "done",
                     !.value = value,
                     !.bytes = packSimhashToBytes(value, call.size),
                     !.out = encodeSimhashToBase64(value, call.size)]
    /\ UNCHANGED jobVars

SimhashNext ==
    \/ SimhashFeature
    \/ SimhashEncode

SimhashSpec == SimhashInit /\ [][SimhashNext]_vars

(* the sum over the features of positive weight of +v or -v by bit i *)
RECURSIVE BitSum(_, _, _, _)
BitSum(f, S, size, i) ==
    IF S = {} THEN 0
    ELSE LET k == CHOOSE x \in S : TRUE
             t == IF f[k] <= 0 THEN 0
                  ELSE IF Bit(hashFunc(k) % (2^size), i) = 1 THEN f[k]
                  ELSE -f[k]
         IN t + BitSum(f, S \ {k}, size, i)

(* the fingerprint as a function of the feature map and the size alone *)
Fingerprint(f, size) ==
    encodeSimhashToBase64(
        SetBits([i \in 1..size |-> BitSum(f, DOMAIN f, size, i - 1)], size),
        size)

(* C17: the output of GetSimhash is a function of the feature map and the *)
(* size: every order in which the entries of the map are ranged over      *)
(* yields the same output.                                                *)
C17_Deterministic ==
    InSimhash("done") => call.out = Fingerprint(call.features, call.size)

C17_Witness ==
    /\ InSimhash("done")
    /\ Cardinality({k \in DOMAIN call.features : call.features[k] > 0}) >= 2
    /\ \E i \in 1..call.size : call.vector[i] > 0
    /\ \E i \in 1..call.size : call.vector[i] < 0


(* --------------------------------- Surt ------------------------------- *)
MaxUrlLen == 4

(* URL strings: letters and dots, the empty part included *)
UrlStrings == UNION {[1..n -> {"a", "b", "."}] : n \in 0..MaxUrlLen}

SurtInit ==
    /\ JobInit
    /\ call \in {[fn |-> "Surt", pc |-> "first", url1 |-> u1, url2 |-> u2,
                  key1 |-> << >>, key2 |-> << >>] :
                    u1 \in UrlStrings, u2 \in UrlStrings}

InSurt(p) == call.fn = "Surt" /\ call.pc = p

SurtFirst ==
    /\ InSurt("first")
    /\ call' = [call EXCEPT !.pc = "second", !.key1 = Surt(call.url1)]
    /\ UNCHANGED jobVars

SurtSecond ==
    /\ InSurt("second")
    /\ call' = [call EXCEPT !.pc = "done", !.key2 = Surt(call.url2)]
    /\ UNCHANGED jobVars

SurtNext ==
    \/ SurtFirst
    \/ SurtSecond

SurtSpec == SurtInit /\ [][SurtNext]_vars

(* the two sequences hold the same parts, each as many times *)
SameParts(ps, qs) ==
    \A p \in {ps[i] : i \in 1..Len(ps)} \cup {qs[i] : i \in 1..Len(qs)} :
       Cardinality({i \in 1..Len(ps) : ps[i] = p})
          = Cardinality({i \in 1..Len(qs) : qs[i] = p})

(* C18: two URL strings whose dot-separated parts are the same multiset  *)
(* normalize to the same key, and the key is the parts of the URL in     *)
(* ascending order joined by ','.                                        *)
C18_SurtOrderInvariant ==
    InSurt("done") =>
       /\ SameParts(Split(call.url1, "."), Split(call.url2, "."))
             => call.key1 = call.key2
       /\ LET ps == Split(call.key1, ",")
          IN /\ SameParts(ps, Split(call.url1, "."))
             /\ \A i \in 1..Len(ps) : \A k \in 1..Len(ps) :
                   i < k => ~StrLess(ps[k], ps[i])

C18_Witness ==
    /\ InSurt("done")
    /\ call.url1 # call.url2
    /\ Len(Split(call.url1, ".")) >= 2
    /\ call.key1 # Join(Split(call.url1, "."), ",")
    /\ SameParts(Split(call.url1, "."), Split(call.url2, "."))
    /\ call.key1 = call.key2


(* C21: a job that is observable in state COMPLETE with a non-empty       *)
(* result map, and whose store write has not failed, has every one of its *)
(* (timestamp, fingerprint) pairs in the store under Surt(url).           *)
C21_StoredBeforeComplete ==
    \A j \in JobIds :
       (/\ state[j] = "COMPLETE"
        /\ finalResult[j] # EmptyMap
        /\ info[j] # "rediserror") =>
          /\ Surt(url[j]) \in DOMAIN store
          /\ \A t \in DOMAIN finalResult[j] :
                /\ t \in DOMAIN store[Surt(url[j])]
                /\ store[Surt(url[j])][t] = finalResult[j][t]


(* C22: for every page the handler can pass and every perPage > 0, the    *)
(* bounds of timestamps[start:end] satisfy 0 <= start <= end <= n, n the  *)
(* number of matching timestamps.                                         *)
C22_SliceInBounds ==
    (call.fn = "YearSimhash" /\ call.sliced /\ call.perPage > 0) =>
       /\ 0 <= call.start
       /\ call.start <= call.end
       /\ call.end <= Cardinality(Matching)


(* C23: the text DownloadCapture returns is never longer than             *)
(* MAP_CAPTURE_DOWNLOAD bytes, whatever the Content-Encoding.             *)
C23_BodyCapped ==
    InDownload("done") => call.len <= MAP_CAPTURE_DOWNLOAD


(* ----------------------- commit and query round trip ------------------ *)
(* the result map of a job for year 2023: captures of that year with *)
(* their fingerprints, not empty                                     *)
ResultMaps ==
    UNION {[S -> {"AAA", "BBB"}] : S \in (SUBSET {Ta, Tb, Tc}) \ {{}}}

(* what earlier jobs have left in the store: nothing, or one hash, under *)
(* the key of a URL with the same or with other parts, with captures of  *)
(* another year or an older fingerprint of this year                     *)
EarlierRecords ==
    UNION {[S -> {"AAA", "BBB"}] : S \in (SUBSET {Ta, Td}) \ {{}}}

EarlierStores ==
    {EmptyMap} \cup
    {MapPut(EmptyMap, Surt(u), r) :
        u \in {<<"a", ".", "b">>, <<"c">>}, r \in EarlierRecords}

RoundTripInit ==
    /\ JobInit
    /\ call \in {[fn |-> "RunJob", pc |-> "hset", jobUrl |-> u,
                  jobYear |-> Y2023, finalResult |-> fr, earlier |-> st,
                  store |-> st, record |-> EmptyMap, timestamp |-> << >>,
                  simhash |-> "", message |-> "", year |-> << >>,
                  page |-> 0, perPage |-> -1, timestamps |-> << >>,
                  sliced |-> FALSE, start |-> 0, end |-> 0, ret |-> << >>,
                  err |-> ""] :
                    u \in URLs, fr \in ResultMaps, st \in EarlierStores}

(* RunJob: HSet(urlKey, finalResult) and Expire succeed *)
RoundTripHSet ==
    /\ call.fn = "RunJob"
    /\ call.pc = "hset"
    /\ call' = [call EXCEPT
                  !.pc = "committed",
                  !.store = HSet(@, Surt(call.jobUrl), call.finalResult)]
    /\ UNCHANGED jobVars

(* the hash HKeys, HGet and HMGet read for a url *)
StoredUnder(st, u) ==
    IF Surt(u) \in DOMAIN st THEN st[Surt(u)] ELSE EmptyMap

(* GET /simhash?url=...&timestamp=... on the url of the job *)
QueryByTimestamp ==
    /\ call.fn = "RunJob"
    /\ call.pc = "committed"
    /\ \E t \in QueryTimestamps \ {<< >>} :
          call' = [call EXCEPT
                     !.fn = "TimestampSimHash", !.pc = "start",
                     !.record = StoredUnder(call.store, call.jobUrl),
                     !.timestamp = t]
    /\ UNCHANGED jobVars

(* GET /simhash?url=...&year=... on the url of the job: the handler passes *)
(* the page parameter and snapshots_per_page = -1                          *)
QueryByYear ==
    /\ call.fn = "RunJob"
    /\ call.pc = "committed"
    /\ \E y \in YearStrings, p \in {-1, 0, 1} :
          call' = [call EXCEPT
                     !.fn = "YearSimhash", !.pc = "start",
                     !.record = StoredUnder(call.store, call.jobUrl),
                     !.year = y, !.page = p]
    /\ UNCHANGED jobVars

(* the steps of the two queries; the lookup of the year prefix follows *)
(* only a field with an empty value, which RunJob never writes        *)
RoundTripNext ==
    \/ RoundTripHSet
    \/ QueryByTimestamp
    \/ QueryByYear
    \/ TimestampInvalid
    \/ TimestampExact
    \/ YearNext

RoundTripSpec == RoundTripInit /\ [][RoundTripNext]_vars

(* the pairs a query by year returned *)
Returned == {call.ret[i] : i \in 1..Len(call.ret)}

(* the fields of year y that earlier jobs left under the key of the url *)
EarlierOf(y) ==
    LET r == StoredUnder(call.earlier, call.jobUrl)
    IN {t \in DOMAIN r : SubSeq(t, 1, 4) = y}

(* C24: after the job has written its result map, a query by timestamp t *)
(* on the job's url returns f for every pair (t, f) of the map, a query  *)
(* by the job's year contains every pair, and the pairs written earlier  *)
(* under the same key for another year are still returned by the query   *)
(* for that year.                                                        *)
C24_RoundTrip ==
    /\ (InTimestamp("done") /\ call.timestamp \in DOMAIN call.finalResult)
          => (call.err = "" /\ call.simhash = call.finalResult[call.timestamp])
    /\ (InYear("done") /\ call.year = call.jobYear)
          => /\ call.err = ""
             /\ \A t \in DOMAIN call.finalResult :
                   <<t, call.finalResult[t]>> \in Returned
    /\ (InYear("done") /\ call.year = <<2,0,2,2>>)
          => \A t \in EarlierOf(call.year) :
                <<t, StoredUnder(call.earlier, call.jobUrl)[t]>> \in Returned

C24_Witness ==
    /\ InYear("done")
    /\ call.year = <<2,0,2,2>>
    /\ EarlierOf(call.year) # {}
    /\ call.jobUrl # Surt(call.jobUrl)
    /\ Returned # {}


(* the bytes a base64 string stands for: four characters give three     *)
(* bytes, fewer when the group ends in padding                          *)
RECURSIVE DecodeString(_)
DecodeString(str) ==
    IF Len(str) < 4 THEN << >>
    ELSE LET b1 == str[1] * 4 + str[2] \div 16
             b2 == (str[2] % 16) * 16 + str[3] \div 4
             b3 == (str[3] % 4) * 64 + str[4]
             group == IF str[3] = 64 THEN <<b1>>
                      ELSE IF str[4] = 64 THEN <<b1, b2>>
                      ELSE <<b1, b2, b3>>
         IN group \o DecodeString(SubSeq(str, 5, Len(str)))

(* bit i of the fingerprint the output decodes to, bytes in little endian *)
FingerprintBit(i) == Bit(DecodeString(call.out)[i \div 8 + 1], i % 8)

(* C25: the output decodes to size/8 bytes; bit i of them is 1 exactly    *)
(* when the sum over the terms of weight > 0, +weight where bit i of the  *)
(* term's hash is 1 and -weight otherwise, is strictly positive; a sum of *)
(* zero gives 0, and a feature set without positive weights gives the     *)
(* all-zero fingerprint.                                                  *)
C25_BitIsSignOfSum ==
    InSimhash("done") =>
       /\ Len(DecodeString(call.out)) = call.size \div 8
       /\ \A i \in 0..(call.size - 1) :
             FingerprintBit(i) = 1 <=>
                BitSum(call.features, DOMAIN call.features, call.size, i) > 0
       /\ (\A k \in DOMAIN call.features : call.features[k] <= 0)
             => \A n \in 1..(call.size \div 8) : DecodeString(call.out)[n] = 0

C25_Witness ==
    /\ InSimhash("done")
    /\ \E k \in DOMAIN call.features : call.features[k] <= 0
    /\ \E i \in 0..(call.size - 1) :
          /\ FingerprintBit(i) = 0
          /\ BitSum(call.features, DOMAIN call.features, call.size, i) = 0
          /\ Bit(hashFunc("k1") % (2^call.size), i) = 1
          /\ "k1" \in DOMAIN call.features
          /\ call.features["k1"] > 0
    /\ \E i \in 0..(call.size - 1) : FingerprintBit(i) = 1

====
